---------------------------- MODULE Spec2Model ----------------------------
(***************************************************************************)
(* A model of the repository's two scripts.                                *)
(*                                                                         *)
(*   - src/visualization.py: the heart viewer (ViewerSpec): list the       *)
(*     folder, load every mesh file in a try/except loop, colour it by     *)
(*     index, add the opacity slider, show.                                *)
(*   - src/gui.py + src/Systems/Cardiac_System.py: the launcher (Spec):    *)
(*     the four ModernButtons, their mouse handlers, the detail windows    *)
(*     and the Escape bindings.                                            *)
(*   - ModernButton.create_rounded_rect_border as a function of its        *)
(*     arguments (BorderSpec), built segment by segment.                   *)
(*                                                                         *)
(* Real numbers are fixed point: colours and opacities are hundredths      *)
(* (0.85 is 85), border coordinates are thousandths of a pixel.            *)
(***************************************************************************)
EXTENDS Integers, Sequences, FiniteSets, TLC

VARIABLES
    \* ---- visualization.py
    folder,        \* the directory OBJ_FOLDER: [exists, listing]
    vpc,           \* where main() of visualization.py is
    obj_files,     \* the list load_obj_files returned
    idx,           \* the loop index of create_realistic_heart_viewer
    meshes,        \* its list meshes
    actors,        \* its list actors
    scene,         \* the plotter's actors by name: [color, opacity, material]
    plotter,       \* "none" | "created" | "shown" | "closed"
    sliderValue,   \* the value of the opacity slider widget
    exitStatus,    \* <<>> while the process runs, <<code>> once it has exited
    console,       \* what was printed
    failures,      \* how many files have failed to load so far
    \* ---- gui.py, Systems/Cardiac_System.py
    app,           \* "running" while root.mainloop() runs, then "exited"
    rootOpen,      \* whether the launcher window is open
    buttons,       \* the four ModernButtons of create_widgets, by index 0..3
    windows,       \* the open detail windows (Toplevels of root)
    nextId,        \* how many Toplevels have been created
    focus,         \* <<id>> of the active window (0: the launcher), or <<>>
    \* ---- gui.py, ModernButton.create_rounded_rect_border
    rect,          \* its arguments: [x1, y1, x2, y2, radius]
    points,        \* its list points, in thousandths of a pixel
    segment,       \* how many of its eight loops have run
    segEnds,       \* len(points) after each loop that has run
    borderLine     \* the coordinates given to create_line, <<>> before

vviewer == <<folder, vpc, obj_files, idx, meshes, actors, scene, plotter,
             sliderValue, exitStatus, console, failures>>

vgui == <<app, rootOpen, buttons, windows, nextId, focus>>

vborder == <<rect, points, segment, segEnds, borderLine>>

vars == <<vviewer, vgui, vborder>>

-----------------------------------------------------------------------------
(* Bounds *)

MaxFiles == 15
MaxFailures == 1
MaxWindows == 2

-----------------------------------------------------------------------------
(* visualization.py: configuration *)

HEART_COLORS ==
    [ muscle_tissue |-> << <<85, 45, 45>>, <<90, 50, 50>>, <<88, 48, 48>>, <<82, 42, 42>> >>,
      arterial      |-> << <<92, 35, 35>>, <<88, 32, 32>>, <<85, 30, 30>> >>,
      venous        |-> << <<60, 70, 85>>, <<55, 65, 82>>, <<50, 60, 80>> >> ]

\* list * 2 + list + list
ALL_COLORS ==
    HEART_COLORS.muscle_tissue \o HEART_COLORS.muscle_tissue
        \o HEART_COLORS.arterial \o HEART_COLORS.venous

DEFAULT_OPACITY == 100

\* The slider's range [0.1, 1.0]
SliderMin == 10
SliderMax == 100

\* add_mesh is called without an opacity argument: the toolkit's default
AddMeshOpacity == 100

-----------------------------------------------------------------------------
(* visualization.py: the folder and its files *)

File(stem, suffix) == [stem |-> stem, suffix |-> suffix]

Ascending(n) == [i \in 1..n |-> File(i, "obj")]
Descending(n) == [i \in 1..n |-> File(n + 1 - i, "obj")]

\* The directory listings the model starts from: MaxFiles or fewer mesh files,
\* returned by the file system in ascending order, or in descending order after
\* a file that is no mesh.
Listings ==
    UNION { { Ascending(n), <<File(0, "txt")>> \o Descending(n) } : n \in 0..MaxFiles }

Folders ==
    { [exists |-> FALSE, listing |-> <<>>] }
        \cup { [exists |-> TRUE, listing |-> l] : l \in Listings }

\* A glob that matches every entry of the folder
glob_AnySuffix(listing) == listing

\* folder.glob("*.obj"): the entries with that suffix, in the listing's order
RECURSIVE glob(_)
glob(listing) ==
    IF listing = <<>> THEN <<>>
    ELSE IF Head(listing).suffix = "obj"
         THEN <<Head(listing)>> \o glob(Tail(listing))
         ELSE glob(Tail(listing))

\* Path.__lt__ on files of one folder: by name
PathLess(a, b) ==
    \/ a.stem < b.stem
    \/ a.stem = b.stem /\ a.suffix = "obj" /\ b.suffix # "obj"

RECURSIVE InsertSorted(_, _)
InsertSorted(x, s) ==
    IF s = <<>> THEN <<x>>
    ELSE IF PathLess(x, Head(s)) THEN <<x>> \o s
         ELSE <<Head(s)>> \o InsertSorted(x, Tail(s))

\* A list used in the order the directory listing gave it
sorted_AsListed(s) == s

\* sorted(list(...)): a stable sort
RECURSIVE sorted(_)
sorted(s) ==
    IF s = <<>> THEN <<>>
    ELSE InsertSorted(s[Len(s)], sorted(SubSeq(s, 1, Len(s) - 1)))

Range(s) == { s[i] : i \in 1..Len(s) }

-----------------------------------------------------------------------------
(* visualization.py: helpers *)

\* A colour taken one place further along the palette
ColorFor_OffByOne(i) == ALL_COLORS[((i + 1) % Len(ALL_COLORS)) + 1]

\* color = ALL_COLORS[idx % len(ALL_COLORS)], idx 0-based
ColorFor(i) == ALL_COLORS[(i % Len(ALL_COLORS)) + 1]

\* plotter.add_mesh(mesh, color=color, ..., name=obj_file.stem): the scene holds
\* one actor per name
add_mesh(sc, name, color) ==
    (name :> [color |-> color, opacity |-> AddMeshOpacity, material |-> "basic"]) @@ sc

\* apply_realistic_material(actor, color) run to its end
apply_realistic_material(actor, color) ==
    [actor EXCEPT !.color = color, !.material = "realistic", !.opacity = DEFAULT_OPACITY]

\* The values the slider callback is called with
SliderValues == { SliderMin, 55, SliderMax }

\* Where the body of the try block raises, or "ok" when it does not
Outcomes == { "ok", "read", "normals", "add_mesh", "material" }

\* An except clause that leaves the loop
next_index_Break(i, outcome, n) == IF outcome = "ok" THEN i + 1 ELSE n

\* The index after an iteration over n files: the except clause only prints,
\* and the for loop goes on with the next file
next_index(i, outcome, n) == i + 1

-----------------------------------------------------------------------------
(* visualization.py: the state after construction *)

ViewerInitWith(f) ==
    /\ folder = f
    /\ vpc = "start"
    /\ obj_files = <<>>
    /\ idx = 0
    /\ meshes = <<>>
    /\ actors = <<>>
    /\ scene = <<>>
    /\ plotter = "none"
    /\ sliderValue = DEFAULT_OPACITY
    /\ exitStatus = <<>>
    /\ console = <<>>
    /\ failures = 0

ViewerInit == \E f \in Folders : ViewerInitWith(f)

-----------------------------------------------------------------------------
(* visualization.py: the steps of main() *)

\* load_obj_files(OBJ_FOLDER), called by main
load_obj_files ==
    /\ vpc = "start"
    /\ LET found == sorted(glob(folder.listing)) IN
       IF ~folder.exists
       THEN /\ console' = Append(console, <<"error", "no folder">>)
            /\ exitStatus' = <<1>>
            /\ vpc' = "exited"
            /\ UNCHANGED obj_files
       ELSE IF found = <<>>
       THEN /\ console' = Append(console, <<"error", "no obj files">>)
            /\ exitStatus' = <<1>>
            /\ vpc' = "exited"
            /\ UNCHANGED obj_files
       ELSE /\ console' = Append(console, <<"found", Len(found)>>)
            /\ obj_files' = found
            /\ vpc' = "listed"
            /\ UNCHANGED exitStatus
    /\ UNCHANGED <<folder, idx, meshes, actors, scene, plotter, sliderValue, failures>>
    /\ UNCHANGED <<vgui, vborder>>

\* create_realistic_heart_viewer, up to its loop: pv.Plotter(), the two lists
create_plotter ==
    /\ vpc = "listed"
    /\ plotter' = "created"
    /\ actors' = <<>>
    /\ meshes' = <<>>
    /\ idx' = 0
    /\ vpc' = "loading"
    /\ UNCHANGED <<folder, obj_files, scene, sliderValue, exitStatus, console, failures>>
    /\ UNCHANGED <<vgui, vborder>>

\* An iteration that appends the actor before its material is applied
load_file_AppendEarly(outcome) ==
    /\ vpc = "loading"
    /\ idx < Len(obj_files)
    /\ outcome # "ok" => failures < MaxFailures
    /\ LET name == obj_files[idx + 1].stem
           color == ColorFor(idx)
           added == add_mesh(scene, name, color)
       IN  /\ meshes' = IF outcome = "read" THEN meshes ELSE Append(meshes, name)
           /\ scene' = CASE outcome = "ok" ->
                              [added EXCEPT ![name] = apply_realistic_material(@, color)]
                         [] outcome = "material" -> added
                         [] OTHER -> scene
           /\ actors' = IF outcome \in {"ok", "material"} THEN Append(actors, name)
                                                             ELSE actors
           /\ console' = Append(console,
                             IF outcome = "ok" THEN <<"loaded", name>>
                                               ELSE <<"warning", name>>)
    /\ failures' = IF outcome = "ok" THEN failures ELSE failures + 1
    /\ idx' = next_index(idx, outcome, Len(obj_files))
    /\ UNCHANGED <<folder, vpc, obj_files, plotter, sliderValue, exitStatus>>
    /\ UNCHANGED <<vgui, vborder>>

\* One iteration of the loop: the try block raises at `outcome`, or runs through
load_file(outcome) ==
    /\ vpc = "loading"
    /\ idx < Len(obj_files)
    /\ outcome # "ok" => failures < MaxFailures
    /\ LET name == obj_files[idx + 1].stem
           color == ColorFor(idx)
           added == add_mesh(scene, name, color)
       IN  /\ meshes' = IF outcome = "read" THEN meshes ELSE Append(meshes, name)
           /\ scene' = CASE outcome = "ok" ->
                              [added EXCEPT ![name] = apply_realistic_material(@, color)]
                         [] outcome = "material" -> added
                         [] OTHER -> scene
           /\ actors' = IF outcome = "ok" THEN Append(actors, name) ELSE actors
           /\ console' = Append(console,
                             IF outcome = "ok" THEN <<"loaded", name>>
                                               ELSE <<"warning", name>>)
    /\ failures' = IF outcome = "ok" THEN failures ELSE failures + 1
    /\ idx' = next_index(idx, outcome, Len(obj_files))
    /\ UNCHANGED <<folder, vpc, obj_files, plotter, sliderValue, exitStatus>>
    /\ UNCHANGED <<vgui, vborder>>

\* After the loop: exit when nothing loaded, else lights, slider, texts, camera,
\* and return plotter
finish_viewer ==
    /\ vpc = "loading"
    /\ idx = Len(obj_files)
    /\ IF actors = <<>>
       THEN /\ console' = Append(console, <<"error", "no meshes loaded">>)
            /\ exitStatus' = <<1>>
            /\ vpc' = "exited"
            /\ UNCHANGED sliderValue
       ELSE /\ console' = Append(console, <<"success", Len(actors)>>)
            /\ sliderValue' = DEFAULT_OPACITY
            /\ vpc' = "built"
            /\ UNCHANGED exitStatus
    /\ UNCHANGED <<folder, obj_files, idx, meshes, actors, scene, plotter, failures>>
    /\ UNCHANGED <<vgui, vborder>>

\* main: plotter.show(full_screen=True, ...)
show ==
    /\ vpc = "built"
    /\ plotter' = "shown"
    /\ vpc' = "viewing"
    /\ UNCHANGED <<folder, obj_files, idx, meshes, actors, scene, sliderValue,
                   exitStatus, console, failures>>
    /\ UNCHANGED <<vgui, vborder>>

\* The slider's callback
update_opacity(value) ==
    /\ vpc = "viewing"
    /\ scene' = [n \in DOMAIN scene |->
                    IF n \in Range(actors) THEN [scene[n] EXCEPT !.opacity = value]
                                           ELSE scene[n]]
    /\ sliderValue' = value
    /\ UNCHANGED <<folder, vpc, obj_files, idx, meshes, actors, plotter,
                   exitStatus, console, failures>>
    /\ UNCHANGED <<vgui, vborder>>

\* The user quits the viewer; main prints its last lines and returns
close_viewer ==
    /\ vpc = "viewing"
    /\ plotter' = "closed"
    /\ console' = Append(console, <<"closed", 0>>)
    /\ exitStatus' = <<0>>
    /\ vpc' = "done"
    /\ UNCHANGED <<folder, obj_files, idx, meshes, actors, scene, sliderValue, failures>>
    /\ UNCHANGED <<vgui, vborder>>

ViewerNext ==
    \/ load_obj_files
    \/ create_plotter
    \/ \E outcome \in Outcomes : load_file(outcome)
    \/ finish_viewer
    \/ show
    \/ \E value \in SliderValues : update_opacity(value)
    \/ close_viewer

-----------------------------------------------------------------------------
(* gui.py: ModernButton *)

\* ModernButton.__init__(parent, text, emoji, command): the fields, the title
\* and emoji canvas items, and the fill of the items tagged "rect" (the mouse
\* cursor, which on_enter and on_leave also set, is left out)
ModernButton(text, emoji, command) ==
    [ text          |-> text,
      emoji         |-> emoji,
      command       |-> command,
      bg_color      |-> "#2a2a2a",
      hover_color   |-> "#3a3a3a",
      active_color  |-> "#4a4a4a",
      current_color |-> "#2a2a2a",
      rect_fill     |-> "#2a2a2a",
      emoji_text    |-> emoji,
      title_text    |-> text ]

\* An update that repaints the canvas items and forgets the field
update_color_FillOnly(button, color) == [button EXCEPT !.rect_fill = color]

\* update_color(color)
update_color(button, color) ==
    [button EXCEPT !.current_color = color, !.rect_fill = color]

-----------------------------------------------------------------------------
(* gui.py: MedicalSystemsGUI *)

NoCommand == "None"

\* create_widgets: the list systems; each command is a lambda calling
\* self.open_system with the name given here
systems ==
    << [text |-> "Cardiac System",         emoji |-> "heart",  command |-> "Cardiac System"],
       [text |-> "Nervous System",         emoji |-> "brain",  command |-> "Nervous System"],
       [text |-> "Musculoskeletal System", emoji |-> "muscle", command |-> "Musculoskeletal System"],
       [text |-> "Dental System",          emoji |-> "tooth",  command |-> "Dental System"] >>

\* create_widgets: for i, system in enumerate(systems): the button and its
\* grid cell (row = i // 2, col = i % 2)
create_widgets ==
    [ i \in 0..(Len(systems) - 1) |->
        [ widget |-> ModernButton(systems[i + 1].text, systems[i + 1].emoji,
                                  systems[i + 1].command),
          row    |-> i \div 2,
          column |-> i % 2 ] ]

\* A dispatch whose second and third branches are exchanged
open_system_Exchanged(system_name) ==
    CASE system_name = "Cardiac System"         -> "CardiacWindow"
      [] system_name = "Nervous System"         -> "MusculoskeletalWindow"
      [] system_name = "Musculoskeletal System" -> "NervousWindow"
      [] system_name = "Dental System"          -> "DentalWindow"
      [] OTHER                                  -> "none"

\* open_system(system_name, emoji): the class whose window it constructs
open_system(system_name) ==
    CASE system_name = "Cardiac System"         -> "CardiacWindow"
      [] system_name = "Nervous System"         -> "NervousWindow"
      [] system_name = "Musculoskeletal System" -> "MusculoskeletalWindow"
      [] system_name = "Dental System"          -> "DentalWindow"
      [] OTHER                                  -> "none"

\* CardiacWindow.__init__(parent): a Toplevel with its title, the sidebar's
\* header label and the Escape binding (lambda e: self.window.destroy())
CardiacWindow(id) ==
    [ id     |-> id,
      class  |-> "CardiacWindow",
      title  |-> "Cardiac System - Human Body Systems Viewer",
      header |-> "Cardiac System",
      escape |-> "destroy",
      footer |-> "Press ESC to return" ]

\* NervousWindow, MusculoskeletalWindow and DentalWindow: the three other
\* placeholder windows, near-identical to CardiacWindow
PlaceholderWindow(class, id) ==
    LET name == CASE class = "NervousWindow"         -> "Nervous System"
                  [] class = "MusculoskeletalWindow" -> "Musculoskeletal System"
                  [] class = "DentalWindow"          -> "Dental System"
    IN  [ id     |-> id,
          class  |-> class,
          title  |-> name,
          header |-> name,
          escape |-> "destroy",
          footer |-> "Press ESC to return" ]

\* A binding that leaves the window open
EscapeBinding_Keep(w, open) == open

\* A binding that destroys the parent's other windows too
EscapeBinding_DestroyAll(w, open) == {}

\* What the Escape binding of a detail window does to the set of open windows
EscapeBinding(w, open) ==
    IF w.escape = "destroy" THEN open \ {w} ELSE open

Ids(ws) == { w.id : w \in ws }

\* The state once MedicalSystemsGUI(root) is built and mainloop() runs
GuiInit ==
    /\ app = "running"
    /\ rootOpen = TRUE
    /\ buttons = create_widgets
    /\ windows = {}
    /\ nextId = 0
    /\ focus = <<0>>

\* <Enter> on button b
on_enter(b) ==
    /\ app = "running"
    /\ buttons' = [buttons EXCEPT ![b].widget = update_color(@, @.hover_color)]
    /\ UNCHANGED <<app, rootOpen, windows, nextId, focus>>
    /\ UNCHANGED <<vviewer, vborder>>

\* <Leave> on button b
on_leave(b) ==
    /\ app = "running"
    /\ buttons' = [buttons EXCEPT ![b].widget = update_color(@, @.bg_color)]
    /\ UNCHANGED <<app, rootOpen, windows, nextId, focus>>
    /\ UNCHANGED <<vviewer, vborder>>

\* <Button-1> on button b
on_click(b) ==
    /\ app = "running"
    /\ buttons' = [buttons EXCEPT ![b].widget = update_color(@, @.active_color)]
    /\ UNCHANGED <<app, rootOpen, windows, nextId, focus>>
    /\ UNCHANGED <<vviewer, vborder>>

\* <ButtonRelease-1> on button b: the colour, then the command, which
\* constructs the window open_system chooses; the new Toplevel is the active
\* window
on_release(b) ==
    /\ app = "running"
    /\ nextId < MaxWindows
    /\ buttons' = [buttons EXCEPT ![b].widget = update_color(@, @.hover_color)]
    /\ LET command == buttons[b].widget.command
           class == open_system(command)
           id == nextId + 1
       IN  IF command = NoCommand \/ class = "none"
           THEN UNCHANGED <<windows, nextId, focus>>
           ELSE /\ windows' = windows \cup
                        { IF class = "CardiacWindow" THEN CardiacWindow(id)
                                                     ELSE PlaceholderWindow(class, id) }
                /\ nextId' = id
                /\ focus' = <<id>>
    /\ UNCHANGED <<app, rootOpen>>
    /\ UNCHANGED <<vviewer, vborder>>

\* <Escape> while the launcher is the active window: the binding
\* (lambda e: self.root.quit()) ends mainloop(), main() returns, the script
\* ends and with it every window of the process
root_escape ==
    /\ app = "running"
    /\ focus = <<0>>
    /\ app' = "exited"
    /\ rootOpen' = FALSE
    /\ windows' = {}
    /\ focus' = <<>>
    /\ UNCHANGED <<buttons, nextId>>
    /\ UNCHANGED <<vviewer, vborder>>

\* <Escape> while detail window w is the active window; the window manager
\* then activates one of the windows that are left
window_escape(w) ==
    /\ app = "running"
    /\ focus = <<w.id>>
    /\ windows' = EscapeBinding(w, windows)
    /\ \E next \in {0} \cup Ids(windows') : focus' = <<next>>
    /\ UNCHANGED <<app, rootOpen, buttons, nextId>>
    /\ UNCHANGED <<vviewer, vborder>>

\* The user activates another open window
activate(id) ==
    /\ app = "running"
    /\ id \in {0} \cup Ids(windows)
    /\ focus # <<id>>
    /\ focus' = <<id>>
    /\ UNCHANGED <<app, rootOpen, buttons, windows, nextId>>
    /\ UNCHANGED <<vviewer, vborder>>

GuiNext ==
    \/ \E b \in DOMAIN buttons : on_enter(b)
    \/ \E b \in DOMAIN buttons : on_leave(b)
    \/ \E b \in DOMAIN buttons : on_click(b)
    \/ \E b \in DOMAIN buttons : on_release(b)
    \/ root_escape
    \/ \E w \in windows : window_escape(w)
    \/ \E id \in 0..MaxWindows : activate(id)

-----------------------------------------------------------------------------
(* gui.py: ModernButton.create_rounded_rect_border *)

\* Coordinates are kept in thousandths of a pixel
Scale == 10 * 10 * 10

\* Scale * sin(5k degrees), k = 0..18, rounded
SinTable ==
    << 0, 87, 174, 259, 342, 423, 500, 574, 643, 707, 766, 819, 866, 906, 940,
       966, 985, 996, 1000 >>

\* Scale * math.sin(math.radians(angle)), angle a multiple of 5 in 0..360
Sin(angle) ==
    CASE angle <= 90  -> SinTable[(angle \div 5) + 1]
      [] angle <= 180 -> SinTable[((180 - angle) \div 5) + 1]
      [] angle <= 270 -> 0 - SinTable[((angle - 180) \div 5) + 1]
      [] OTHER        -> 0 - SinTable[((360 - angle) \div 5) + 1]

\* Scale * math.cos(math.radians(angle))
Cos(angle) == Sin((angle + 90) % 360)

\* range(a, b + 1) and range(a, b - 1, -1) as lists
Upto(a, b) == [i \in 1..(IF b >= a THEN b - a + 1 ELSE 0) |-> a + i - 1]
Downto(a, b) == [i \in 1..(IF a >= b THEN a - b + 1 ELSE 0) |-> a - i + 1]

\* range(first, first + 91, 5)
Angles(first) == [i \in 1..19 |-> first + 5 * (i - 1)]

\* The points the k-th loop of create_rounded_rect_border appends
SegmentPoints(r, k) ==
    LET x1 == r.x1  y1 == r.y1  x2 == r.x2  y2 == r.y2  radius == r.radius IN
    CASE k = 1 -> LET s == Upto(x1 + radius, x2 - radius)
                  IN  [i \in DOMAIN s |-> <<Scale * s[i], Scale * y1>>]
      [] k = 2 -> LET s == Angles(0)
                  IN  [i \in DOMAIN s |->
                         << Scale * (x2 - radius) + radius * Cos(s[i]),
                            Scale * (y1 + radius) - radius * Sin(s[i]) >>]
      [] k = 3 -> LET s == Upto(y1 + radius, y2 - radius)
                  IN  [i \in DOMAIN s |-> <<Scale * x2, Scale * s[i]>>]
      [] k = 4 -> LET s == Angles(90)
                  IN  [i \in DOMAIN s |->
                         << Scale * (x2 - radius) + radius * Cos(s[i]),
                            Scale * (y2 - radius) - radius * Sin(s[i]) >>]
      [] k = 5 -> LET s == Downto(x2 - radius, x1 + radius)
                  IN  [i \in DOMAIN s |-> <<Scale * s[i], Scale * y2>>]
      [] k = 6 -> LET s == Angles(180)
                  IN  [i \in DOMAIN s |->
                         << Scale * (x1 + radius) + radius * Cos(s[i]),
                            Scale * (y2 - radius) - radius * Sin(s[i]) >>]
      [] k = 7 -> LET s == Downto(y2 - radius, y1 + radius)
                  IN  [i \in DOMAIN s |-> <<Scale * x1, Scale * s[i]>>]
      [] k = 8 -> LET s == Angles(270)
                  IN  [i \in DOMAIN s |->
                         << Scale * (x1 + radius) + radius * Cos(s[i]),
                            Scale * (y1 + radius) - radius * Sin(s[i]) >>]

\* flat_points = [coord for point in points for coord in point]
flat_points(ps) == [i \in 1..(2 * Len(ps)) |-> ps[(i + 1) \div 2][2 - (i % 2)]]

\* The call of create_rounded_rect: x1, y1, x2, y2 = 10, 10, 440, 190; radius = 24
ButtonRect == [x1 |-> 10, y1 |-> 10, x2 |-> 440, y2 |-> 190, radius |-> 24]

\* The arguments the function is tried on: the button's own, and smaller
\* rectangles whose sides are at least two radii long
Rects ==
    { [x1 |-> x1, y1 |-> y1, x2 |-> x1 + size[1], y2 |-> y1 + size[2], radius |-> radius] :
        x1 \in {0, 10}, y1 \in {0, 10},
        size \in { <<430, 180>>, <<60, 50>>, <<48, 48>> }, radius \in {8, 24} }

BorderInitWith(r) ==
    /\ rect = r
    /\ points = <<>>
    /\ segment = 0
    /\ segEnds = <<>>
    /\ borderLine = <<>>

BorderInit == \E r \in Rects : BorderInitWith(r)

\* One of the eight loops of create_rounded_rect_border
border_segment ==
    /\ segment < 8
    /\ points' = points \o SegmentPoints(rect, segment + 1)
    /\ segment' = segment + 1
    /\ segEnds' = Append(segEnds, Len(points'))
    /\ UNCHANGED <<rect, borderLine>>
    /\ UNCHANGED <<vviewer, vgui>>

\* if len(points) > 2: self.create_line(flat_points, ...)
border_create_line ==
    /\ segment = 8
    /\ segment' = 9
    /\ borderLine' = IF Len(points) > 2 THEN flat_points(points) ELSE <<>>
    /\ UNCHANGED <<rect, points, segEnds>>
    /\ UNCHANGED <<vviewer, vgui>>

BorderNext ==
    \/ border_segment
    \/ border_create_line

-----------------------------------------------------------------------------
(* The specifications *)

MissingFolder == [exists |-> FALSE, listing |-> <<>>]

\* The launcher
Init == GuiInit /\ ViewerInitWith(MissingFolder) /\ BorderInitWith(ButtonRect)
Next == GuiNext
Spec == Init /\ [][Next]_vars

\* The heart viewer
ViewerSpecInit == ViewerInit /\ GuiInit /\ BorderInitWith(ButtonRect)
ViewerSpec == ViewerSpecInit /\ [][ViewerNext]_vars

\* create_rounded_rect_border, on each of Rects
BorderSpecInit == BorderInit /\ GuiInit /\ ViewerInitWith(MissingFolder)
BorderSpec == BorderSpecInit /\ [][BorderNext]_vars

-----------------------------------------------------------------------------
(* Claims about the heart viewer (ViewerSpec) *)

\* The palette as the specification words it: the 4 muscle-tissue tones, the
\* same 4 again, the 3 arterial tones, the 3 venous tones
C1_Palette ==
    << <<85, 45, 45>>, <<90, 50, 50>>, <<88, 48, 48>>, <<82, 42, 42>>,
       <<85, 45, 45>>, <<90, 50, 50>>, <<88, 48, 48>>, <<82, 42, 42>>,
       <<92, 35, 35>>, <<88, 32, 32>>, <<85, 30, 30>>,
       <<60, 70, 85>>, <<55, 65, 82>>, <<50, 60, 80>> >>

\* C1: the mesh file at 0-based index i of the sorted file list is coloured
\* ALL_COLORS[i mod 14], ALL_COLORS being the 14 colours of C1_Palette in that
\* order; so the files at index i and i + 14 get the same colour.
C1_ColourByIndex ==
    /\ ALL_COLORS = C1_Palette
    /\ \A i \in 0..(Len(obj_files) - 1) :
          LET name == obj_files[i + 1].stem IN
          name \in DOMAIN scene => scene[name].color = C1_Palette[(i % 14) + 1]
    /\ \A i \in 0..(Len(obj_files) - 1) :
          LET j == i + 14 IN
          (j < Len(obj_files)
              /\ obj_files[i + 1].stem \in DOMAIN scene
              /\ obj_files[j + 1].stem \in DOMAIN scene)
            => scene[obj_files[i + 1].stem].color = scene[obj_files[j + 1].stem].color

\* Fifteen files are loaded: those at index 0 and at index 14 are in the scene
C1_Witness ==
    /\ vpc = "viewing"
    /\ Len(obj_files) >= 15
    /\ obj_files[1].stem \in Range(actors)
    /\ obj_files[15].stem \in Range(actors)
    /\ scene[obj_files[1].stem].color = scene[obj_files[15].stem].color
    /\ scene[obj_files[1].stem].color # scene[obj_files[14].stem].color

NoObjFile == \A i \in DOMAIN folder.listing : folder.listing[i].suffix # "obj"

\* C2: when the folder does not exist, or exists and holds no *.obj file,
\* load_obj_files prints an error and exits with status 1; no plotter is ever
\* created and no viewer shown.
C2_NoFilesExits ==
    (~folder.exists \/ NoObjFile) =>
        /\ plotter = "none"
        /\ scene = <<>>
        /\ vpc \in {"start", "exited"}
        /\ vpc = "exited" =>
              /\ exitStatus = <<1>>
              /\ Len(console) = 1
              /\ console[1][1] = "error"
              /\ console[1][2] = (IF folder.exists THEN "no obj files" ELSE "no folder")

\* The folder exists, holds a file that is no mesh, and the process has exited
C2_Witness ==
    /\ folder.exists
    /\ folder.listing # <<>>
    /\ NoObjFile
    /\ vpc = "exited"
    /\ exitStatus = <<1>>

\* The lines the loop printed, one per file it has attempted
FileLines == SelectSeq(console, LAMBDA line : line[1] \in {"loaded", "warning"})

LoopDone == vpc \in {"built", "viewing", "done"} \/ (vpc = "exited" /\ plotter # "none")

\* C3: a file whose load raises is skipped with a warning and every later file
\* is still attempted; the viewer is returned and shown if and only if at least
\* one file produced an actor, and otherwise the process exits with status 1
\* without showing a viewer.
C3_SkipAndContinue ==
    /\ Len(FileLines) = idx
    /\ \A i \in 1..Len(FileLines) :
          /\ FileLines[i][2] = obj_files[i].stem
          /\ (FileLines[i][1] = "warning") = (obj_files[i].stem \notin Range(actors))
    /\ LoopDone => idx = Len(obj_files)
    /\ LoopDone => ((actors # <<>>) = (vpc \in {"built", "viewing", "done"}))
    /\ plotter \in {"shown", "closed"} => actors # <<>>
    /\ (vpc = "exited" /\ plotter # "none") =>
          (actors = <<>> /\ exitStatus = <<1>> /\ plotter = "created")

\* The first file was skipped, the last one loaded, and the viewer is shown
C3_Witness ==
    /\ vpc = "viewing"
    /\ plotter = "shown"
    /\ Len(obj_files) >= 3
    /\ FileLines[1][1] = "warning"
    /\ FileLines[2][1] = "loaded"
    /\ FileLines[Len(obj_files)][1] = "loaded"
    /\ Len(actors) = Len(obj_files) - 1

\* C6: every heart part added to the plotter's scene has the opacity of the
\* last slider value, and DEFAULT_OPACITY before the first slider callback.
C6_AllPartsFollowSlider ==
    \A name \in DOMAIN scene :
        scene[name].opacity = (IF vpc \in {"viewing", "done"} THEN sliderValue
                                                               ELSE DEFAULT_OPACITY)

\* The names of the folder's *.obj files, as a set: what two runs over the same
\* files share, whatever the order of the listing
ObjNames ==
    { folder.listing[i].stem :
        i \in { k \in DOMAIN folder.listing : folder.listing[k].suffix = "obj" } }

\* The 0-based rank of a name among the names of the folder
RankOf(name) == Cardinality({ other \in ObjNames : other < name })

\* C11: the colour of a mesh file depends only on the file's rank in the
\* name-sorted list of the folder's *.obj files: it is the same whatever order
\* the directory listing came in and whichever other files failed to load (a
\* skipped file still consumes its index).
C11_ColourByRankOnly ==
    \A name \in DOMAIN scene :
        /\ name \in ObjNames
        /\ scene[name].color = C1_Palette[(RankOf(name) % Len(C1_Palette)) + 1]

\* The listing came in descending order, the first file of the sorted list was
\* skipped, and the files after it are in the scene
C11_Witness ==
    /\ vpc = "viewing"
    /\ Len(folder.listing) >= 4
    /\ folder.listing[2].stem > folder.listing[3].stem
    /\ FileLines[1][1] = "warning"
    /\ 1 \notin DOMAIN scene
    /\ 2 \in DOMAIN scene
    /\ scene[2].color = C1_Palette[2]
    /\ scene[3].color = C1_Palette[3]


\* The names on the "loaded" lines, in the order they were printed
LoadedNames ==
    LET lines == SelectSeq(console, LAMBDA line : line[1] = "loaded")
    IN  [i \in 1..Len(lines) |-> lines[i][2]]

\* The counts the "Successfully loaded" line reported
ReportedCounts ==
    LET lines == SelectSeq(console, LAMBDA line : line[1] = "success")
    IN  [i \in 1..Len(lines) |-> lines[i][2]]

\* C12: at every point of the loading loop, len(actors) <= len(meshes) <= the
\* number of files processed so far; actors holds exactly one actor for each
\* file whose read, normal computation, add_mesh and material application all
\* succeeded, in sorted file order; the count reported as successfully loaded
\* equals len(actors).
C12_ActorsAreTheLoadedFiles ==
    /\ Len(actors) <= Len(meshes)
    /\ Len(meshes) <= idx
    /\ idx <= Len(obj_files)
    /\ actors = LoadedNames
    /\ Range(actors) = { name \in DOMAIN scene : scene[name].material = "realistic" }
    /\ \A i, j \in 1..Len(actors) : i < j => actors[i] < actors[j]
    /\ \A i \in 1..Len(actors) :
          \E k \in 1..idx : obj_files[k].stem = actors[i] /\ FileLines[k][1] = "loaded"
    /\ Len(actors) + failures = idx
    /\ Len(ReportedCounts) <= 1
    /\ \A i \in 1..Len(ReportedCounts) : ReportedCounts[i] = Len(actors)

\* A file was read and added to the scene but its material failed: it is in
\* meshes and not in actors, and the count of the others has been reported
C12_Witness ==
    /\ vpc = "built"
    /\ Len(obj_files) >= 3
    /\ Len(meshes) = Len(obj_files)
    /\ Len(actors) = Len(meshes) - 1
    /\ \E name \in DOMAIN scene : scene[name].material = "basic"
    /\ ReportedCounts = <<Len(actors)>>


-----------------------------------------------------------------------------
(* Claims about the launcher (Spec) *)

Escape == root_escape \/ \E w \in windows : window_escape(w)

C7_WindowOf(label) ==
    CASE label = "Cardiac System"         -> "CardiacWindow"
      [] label = "Nervous System"         -> "NervousWindow"
      [] label = "Musculoskeletal System" -> "MusculoskeletalWindow"
      [] label = "Dental System"          -> "DentalWindow"

C7_Layout ==
    /\ DOMAIN buttons = 0..3
    /\ { buttons[i].widget.title_text : i \in DOMAIN buttons } =
          { "Cardiac System", "Nervous System", "Musculoskeletal System", "Dental System" }
    /\ \A i \in DOMAIN buttons :
          /\ buttons[i].row = i \div 2
          /\ buttons[i].column = i % 2
          /\ buttons[i].row \in {0, 1}
          /\ buttons[i].column \in {0, 1}
          /\ buttons[i].widget.title_text = systems[i + 1].text
          /\ buttons[i].widget.title_text = buttons[i].widget.text
    /\ \A i, j \in DOMAIN buttons :
          i # j => <<buttons[i].row, buttons[i].column>> # <<buttons[j].row, buttons[j].column>>
    /\ Cardinality(DOMAIN buttons) = 4

\* C7: the launcher has exactly four system buttons in four distinct cells of a
\* 2x2 grid (button i at row i div 2, column i mod 2), each showing its
\* configured text; releasing the mouse on the button labelled S opens the
\* detail window of system S and of no other system.
C7_ButtonsOpenTheirSystem ==
    [][ /\ C7_Layout
        /\ C7_Layout'
        /\ \A b \in DOMAIN buttons :
              on_release(b) =>
                 \E w \in windows' :
                    /\ w \notin windows
                    /\ windows' = windows \cup {w}
                    /\ w.class = C7_WindowOf(buttons[b].widget.title_text) ]_vars

\* The windows of two different systems are open, the buttons released last
C7_Witness ==
    /\ app = "running"
    /\ \E w \in windows : w.class = "MusculoskeletalWindow"
    /\ \E w \in windows : w.class = "DentalWindow"
    /\ buttons[2].widget.current_color = buttons[2].widget.hover_color
    /\ buttons[3].widget.current_color = buttons[3].widget.hover_color

\* C8: Escape in a detail window destroys only that window: the launcher
\* window, its event loop and every other open detail window stay as they are.
C8_EscapeDestroysOnlyThat ==
    [][ \A w \in windows :
          window_escape(w) =>
             /\ windows' = windows \ {w}
             /\ \A v \in windows : v # w => v \in windows'
             /\ rootOpen' /\ rootOpen
             /\ app' = "running"
             /\ buttons' = buttons ]_vars

\* One detail window was closed by Escape, the other one is still open
C8_Witness ==
    /\ app = "running"
    /\ rootOpen
    /\ nextId = 2
    /\ Cardinality(windows) = 1

ColoursOf(b) ==
    { buttons[b].widget.bg_color, buttons[b].widget.hover_color,
      buttons[b].widget.active_color }

\* C9: under any sequence of enter, leave, press and release events,
\* current_color is one of bg_color, hover_color, active_color; it is
\* hover_color right after enter, bg_color right after leave, active_color
\* right after press and hover_color right after release; the command is
\* invoked exactly once per release and never by enter, leave or press.
C9_ButtonColoursAndCommand ==
    [][ \A b \in DOMAIN buttons :
          /\ buttons[b].widget.current_color \in ColoursOf(b)
          /\ buttons'[b].widget.current_color \in ColoursOf(b)
          /\ on_enter(b) => /\ buttons'[b].widget.current_color = "#3a3a3a"
                            /\ nextId' = nextId /\ windows' = windows
          /\ on_leave(b) => /\ buttons'[b].widget.current_color = "#2a2a2a"
                            /\ nextId' = nextId /\ windows' = windows
          /\ on_click(b) => /\ buttons'[b].widget.current_color = "#4a4a4a"
                            /\ nextId' = nextId /\ windows' = windows
          /\ on_release(b) => /\ buttons'[b].widget.current_color = "#3a3a3a"
                              /\ nextId' = nextId + 1
                              /\ Cardinality(windows' \ windows) = 1 ]_vars

\* One button is pressed, another hovered, a third was released and opened a
\* window
C9_Witness ==
    /\ app = "running"
    /\ nextId >= 1
    /\ \E a, b, c \in DOMAIN buttons :
          /\ buttons[a].widget.current_color = "#4a4a4a"
          /\ buttons[b].widget.current_color = "#3a3a3a"
          /\ buttons[c].widget.current_color = "#2a2a2a"

-----------------------------------------------------------------------------
(* Claims about create_rounded_rect_border (BorderSpec) *)

\* The points of the k-th loop, k <= segment
SegmentOf(k) ==
    SubSeq(points, (IF k = 1 THEN 0 ELSE segEnds[k - 1]) + 1, segEnds[k])

Between(a, v, b) == a <= v /\ v <= b

\* Point p lies on straight side k between that side's two tangent points
OnSide(k, p) ==
    LET lox == Scale * (rect.x1 + rect.radius)  hix == Scale * (rect.x2 - rect.radius)
        loy == Scale * (rect.y1 + rect.radius)  hiy == Scale * (rect.y2 - rect.radius)
    IN  CASE k = 1 -> p[2] = Scale * rect.y1 /\ Between(lox, p[1], hix)
          [] k = 3 -> p[1] = Scale * rect.x2 /\ Between(loy, p[2], hiy)
          [] k = 5 -> p[2] = Scale * rect.y2 /\ Between(lox, p[1], hix)
          [] k = 7 -> p[1] = Scale * rect.x1 /\ Between(loy, p[2], hiy)

\* Point p lies on the quarter circle of the corner loop k is named after:
\* inside that corner's radius-by-radius square, at the radius from its centre
\* (to the precision of SinTable)
OnCorner(k, p) ==
    LET r == Scale * rect.radius
        right == k \in {2, 4}
        bottom == k \in {4, 6}
        cx == IF right THEN Scale * rect.x2 - r ELSE Scale * rect.x1 + r
        cy == IF bottom THEN Scale * rect.y2 - r ELSE Scale * rect.y1 + r
        dx == p[1] - cx
        dy == p[2] - cy
        d2 == dx * dx + dy * dy - r * r
    IN  /\ IF right THEN Between(0, dx, r) ELSE Between(0 - r, dx, 0)
        /\ IF bottom THEN Between(0, dy, r) ELSE Between(0 - r, dy, 0)
        /\ Between(0 - 2 * r * rect.radius, d2, 2 * r * rect.radius)

\* C5: every point create_rounded_rect_border emits lies on the outline of the
\* rounded rectangle: a side point on its side between the two corner tangent
\* points, an arc point on the quarter circle of that same corner, inside the
\* corner's radius-by-radius square.
C5_AllPointsOnOutline ==
    \A k \in 1..(IF segment <= 8 THEN segment ELSE 8) :
        \A i \in 1..Len(SegmentOf(k)) :
            IF k \in {1, 3, 5, 7} THEN OnSide(k, SegmentOf(k)[i])
                                  ELSE OnCorner(k, SegmentOf(k)[i])

\* C10: the point list is one continuous closed polyline: the eight segments
\* come in the order top side, top-right arc, right side, bottom-right arc,
\* bottom side, bottom-left arc, left side, top-left arc; the last point of
\* each segment is the first point of the next; the last point of the list is
\* the first point of the list.
C10_ClosedPolyline ==
    /\ \A k \in 1..(IF segment <= 8 THEN segment ELSE 8) :
          /\ SegmentOf(k) = SegmentPoints(rect, k)
          /\ k > 1 => points[segEnds[k - 1]] = points[segEnds[k - 1] + 1]
    /\ segment >= 8 => points[Len(points)] = points[1]

=============================================================================
